---- MODULE Spec2Model ----
(***************************************************************************)
(* The container model of hbctool's HBC86 and HBC96 classes: the edit      *)
(* operations setFunction and setString and the accessors getFunction and  *)
(* getString, applied to one HBC86 container and one HBC96 container that  *)
(* start from the same parsed object and receive the same calls.           *)
(*                                                                         *)
(* Byte lists (the Python lists obj["inst"], obj["stringStorage"], bc) are *)
(* held run-length encoded: <<[b |-> 7, n |-> 3], [b |-> 0, n |-> 2]>> is  *)
(* the list [7, 7, 7, 0, 0].  The encoding is canonical (no empty run, no  *)
(* two neighbouring runs of the same byte), so equality of encodings is    *)
(* equality of lists, and every operator below is the list operation it    *)
(* names.  This keeps the real 15-bit limit (32767) in the model.          *)
(***************************************************************************)
EXTENDS Integers, Sequences, FiniteSets, TLC

(* ---------------------------- bounds ---------------------------------- *)
\* paramCount of a payload ranges over 1..MaxCount (registerCount and
\* symbolCount follow it, see Funcs).
MaxCount == 1
\* short bytecodes [1, 2, .., n] have n in 0..MaxSmallLen
MaxSmallLen == 2
\* long bytecodes [0x77] * n have n in max_small_size..max_small_size + MaxOver
MaxOver == 1
\* setString values have at most MaxStrLen characters
MaxStrLen == 2
\* a run makes at most MaxCalls edit calls on the parsed container
MaxCalls == 2

(* ------------------------- program constants -------------------------- *)
\* (1 << 15) - 1, the 15-bit limit of the compact function header
max_small_size == 32767
\* the string-table length that sends the lookup to the overflow table
INVALID_LENGTH == 255

(* ------------------------------ byte lists ---------------------------- *)
\* [b] * n
Repeat(b, n) == IF n > 0 THEN <<[b |-> b, n |-> n]>> ELSE <<>>

\* len(list)
RECURSIVE ListLen(_)
ListLen(s) == IF s = <<>> THEN 0 ELSE Head(s).n + ListLen(Tail(s))

\* the canonical encoding of a concatenation of runs
RECURSIVE Norm(_)
Norm(s) ==
    IF s = <<>> THEN <<>>
    ELSE IF Head(s).n = 0 THEN Norm(Tail(s))
    ELSE LET r == Norm(Tail(s)) IN
         IF r # <<>> /\ Head(r).b = Head(s).b
           THEN <<[b |-> Head(s).b, n |-> Head(s).n + Head(r).n]>> \o Tail(r)
           ELSE <<Head(s)>> \o r

\* list[:k] for k >= 0
RECURSIVE Take(_, _)
Take(s, k) ==
    IF k <= 0 \/ s = <<>> THEN <<>>
    ELSE IF Head(s).n >= k THEN <<[b |-> Head(s).b, n |-> k]>>
    ELSE <<Head(s)>> \o Take(Tail(s), k - Head(s).n)

\* list[k:] for k >= 0
RECURSIVE Drop(_, _)
Drop(s, k) ==
    IF s = <<>> THEN <<>>
    ELSE IF k <= 0 THEN s
    ELSE IF Head(s).n > k THEN <<[b |-> Head(s).b, n |-> Head(s).n - k]>> \o Tail(s)
    ELSE Drop(Tail(s), k - Head(s).n)

\* list[a:b] for a >= 0 (Python clamps both ends to the list)
Slice(s, a, b) == Take(Drop(s, a), b - a)

\* list.extend(t), and list + t
Extend(s, t) == Norm(s \o t)

\* the list as a plain sequence of bytes, and back
RECURSIVE Expand(_)
Expand(s) ==
    IF s = <<>> THEN <<>>
    ELSE [i \in 1..Head(s).n |-> Head(s).b] \o Expand(Tail(s))

Pack(bytes) == Norm([i \in 1..Len(bytes) |-> [b |-> bytes[i], n |-> 1]])

\* hbctool.util.memcpy(dest, src, start, length):
\*     for i in range(length): dest[start + i] = src[i]
\* The callers extend dest before the call when the copy must grow it, so
\* the copy itself stores into existing elements only: a store past the end
\* of dest raises IndexError after the elements before it were stored.
memcpy(dest, src, start, length) ==
    IF start + length <= ListLen(dest)
      THEN [err |-> "ok",
            dest |-> Norm(Take(dest, start) \o Take(src, length)
                          \o Drop(dest, start + length))]
      ELSE [err |-> "IndexError",
            dest |-> IF start >= ListLen(dest) THEN dest
                     ELSE Norm(Take(dest, start)
                               \o Take(src, ListLen(dest) - start))]

(* --------------------------- dict helpers ----------------------------- *)
\* A function header is a Python dict: a function whose domain is the set
\* of keys present ("small" is present only while it exists).
HasKey(d, k) == k \in DOMAIN d
SetKey(d, k, v) == [x \in DOMAIN d \cup {k} |-> IF x = k THEN v ELSE d[x]]
DelKey(d, k) == [x \in DOMAIN d \ {k} |-> d[x]]

\* flags | (1 << 5), flags & ~(1 << 5) and flags & (1 << 5) on Python ints
Bit5(flags) == IF (flags \div 32) % 2 = 1 THEN 32 ELSE 0
OrBit5(flags) == IF Bit5(flags) = 0 THEN flags + 32 ELSE flags
ClearBit5(flags) == flags - Bit5(flags)

\* min(a, b)
Min(a, b) == IF a <= b THEN a ELSE b

\* The keys copied into the small header (hbc86 l.117-119, hbc96 l.110-112)
SmallKeys ==
    {"offset", "paramCount", "bytecodeSizeInBytes", "functionName",
     "infoOffset", "frameSize", "environmentSize", "highestReadCacheIndex",
     "highestWriteCacheIndex", "flags"}

(* ----------------------- translator collaborator ---------------------- *)
\* Structured instructions are a record [valid, bytes]: assemble lowers
\* them to their bytes or rejects them; disassemble lifts bytes.
assemble(insts) ==
    IF insts.valid THEN [err |-> "ok", bc |-> insts.bytes]
    ELSE [err |-> "AssembleError", bc |-> <<>>]

disassemble(bc) == [valid |-> TRUE, bytes |-> bc]

(* ------------------------------ accessors ----------------------------- *)
getFunctionCount(obj) == obj.header.functionCount

getStringCount(obj) == obj.header.stringCount

\* The outcome of a call: the exception it raised ("ok" for none), the
\* container as the call left it, and the value it returned.
Outcome(err, obj, ret) == [err |-> err, obj |-> obj, ret |-> ret]

(* ---------------------------- setFunction ----------------------------- *)
\* (C10's mutant: the call also renames the function, to string 1)
StoreCounts_Rename(fh, func) ==
    [fh EXCEPT !["paramCount"] = func[2],
               !["frameSize"] = func[3],
               !["environmentSize"] = func[4],
               !["functionName"] = 1]

\* The stores into the header of the counts unpacked from func =
\* <<functionName, paramCount, registerCount, symbolCount, insts, _>>;
\* functionName is not stored.
StoreCounts(fh, func) ==
    [fh EXCEPT !["paramCount"] = func[2],
               !["frameSize"] = func[3],
               !["environmentSize"] = func[4]]

\* (C5's mutant: small keeps the flags from before the overflow bit was set)
MakeSmall_OldFlags(fh, original) ==
    LET copy == [k \in SmallKeys \cap DOMAIN fh |-> fh[k]] IN
    SetKey(SetKey(copy, "bytecodeSizeInBytes", Min(original, max_small_size)),
           "flags", ClearBit5(fh["flags"]))

\* The small header backup made from the header fh whose flags already
\* carry the overflow bit; original is the size before the call.
MakeSmall(fh, original) ==
    LET copy == [k \in SmallKeys \cap DOMAIN fh |-> fh[k]] IN
    SetKey(SetKey(copy, "bytecodeSizeInBytes", Min(original, max_small_size)),
           "flags", fh["flags"])

\* (C2's mutant: small.bytecodeSizeInBytes is taken from the new size)
HBC86_Overflow_SmallFromNew(fh, original_size, new_size) ==
    IF new_size > max_small_size
      THEN LET f1 == [fh EXCEPT !["flags"] = OrBit5(fh["flags"])]
               f2 == IF ~HasKey(f1, "small")
                       THEN SetKey(f1, "small", MakeSmall(f1, new_size))
                       ELSE f1
           IN [f2 EXCEPT !["bytecodeSizeInBytes"] = new_size]
      ELSE DelKey([fh EXCEPT !["bytecodeSizeInBytes"] = new_size,
                             !["flags"] = ClearBit5(fh["flags"])], "small")

\* (C4's mutant: small is deleted and the overflow bit is left set)
HBC86_Overflow_KeepFlag(fh, original_size, new_size) ==
    IF new_size > max_small_size
      THEN LET f1 == [fh EXCEPT !["flags"] = OrBit5(fh["flags"])]
               f2 == IF ~HasKey(f1, "small")
                       THEN SetKey(f1, "small", MakeSmall(f1, original_size))
                       ELSE f1
           IN [f2 EXCEPT !["bytecodeSizeInBytes"] = new_size]
      ELSE DelKey([fh EXCEPT !["bytecodeSizeInBytes"] = new_size], "small")

\* (C23's mutant: a header already overflowed gets its small made anew)
HBC86_Overflow_Refresh(fh, original_size, new_size) ==
    IF new_size > max_small_size
      THEN LET f0 == IF ~HasKey(fh, "flags") THEN SetKey(fh, "flags", 0) ELSE fh
               f1 == [f0 EXCEPT !["flags"] = OrBit5(f0["flags"])]
               f2 == SetKey(f1, "small", MakeSmall(DelKey(f1, "small"), original_size))
           IN [f2 EXCEPT !["bytecodeSizeInBytes"] = new_size]
      ELSE IF new_size <= original_size \/ original_size <= max_small_size
        THEN LET f0 == [fh EXCEPT !["bytecodeSizeInBytes"] = new_size]
                 f1 == IF HasKey(f0, "flags")
                         THEN [f0 EXCEPT !["flags"] = ClearBit5(f0["flags"])]
                         ELSE f0
             IN IF HasKey(f1, "small") /\ new_size <= max_small_size
                  THEN DelKey(f1, "small") ELSE f1
        ELSE [fh EXCEPT !["bytecodeSizeInBytes"] = new_size]

\* HBC86: the overflow bookkeeping of the header for a bytecode of new_size
HBC86_Overflow(fh, original_size, new_size) ==
    IF new_size > max_small_size
      THEN LET f0 == IF ~HasKey(fh, "flags") THEN SetKey(fh, "flags", 0) ELSE fh
               f1 == [f0 EXCEPT !["flags"] = OrBit5(f0["flags"])]
               f2 == IF ~HasKey(f1, "small")
                       THEN SetKey(f1, "small", MakeSmall(f1, original_size))
                       ELSE f1
           IN [f2 EXCEPT !["bytecodeSizeInBytes"] = new_size]
      ELSE IF new_size <= original_size \/ original_size <= max_small_size
        THEN LET f0 == [fh EXCEPT !["bytecodeSizeInBytes"] = new_size]
                 f1 == IF HasKey(f0, "flags")
                         THEN [f0 EXCEPT !["flags"] = ClearBit5(f0["flags"])]
                         ELSE f0
             IN IF HasKey(f1, "small") /\ new_size <= max_small_size
                  THEN DelKey(f1, "small") ELSE f1
        ELSE [fh EXCEPT !["bytecodeSizeInBytes"] = new_size]

\* (C3's mutant: the overflow form starts one byte early, at 32767)
HBC96_Overflow_AtMax(fh, bytecodeSizeInBytes, new_size) ==
    IF new_size >= max_small_size
      THEN LET f1 == SetKey(fh, "flags",
                        OrBit5(IF HasKey(fh, "flags") THEN fh["flags"] ELSE 0))
               f2 == IF ~HasKey(f1, "small")
                       THEN SetKey(f1, "small", MakeSmall(f1, bytecodeSizeInBytes))
                       ELSE f1
           IN [f2 EXCEPT !["bytecodeSizeInBytes"] = new_size]
      ELSE [fh EXCEPT !["bytecodeSizeInBytes"] = new_size]

\* (C9's mutant: small is made anew by every call of more than 32767 bytes)
HBC96_Overflow_Resnapshot(fh, bytecodeSizeInBytes, new_size) ==
    IF new_size > max_small_size
      THEN LET f1 == SetKey(fh, "flags",
                        OrBit5(IF HasKey(fh, "flags") THEN fh["flags"] ELSE 0))
               f2 == SetKey(f1, "small", MakeSmall(DelKey(f1, "small"), bytecodeSizeInBytes))
           IN [f2 EXCEPT !["bytecodeSizeInBytes"] = new_size]
      ELSE [fh EXCEPT !["bytecodeSizeInBytes"] = new_size]

\* HBC96: the overflow bookkeeping of the header for a bytecode of new_size
HBC96_Overflow(fh, bytecodeSizeInBytes, new_size) ==
    IF new_size > max_small_size
      THEN LET f1 == SetKey(fh, "flags",
                        OrBit5(IF HasKey(fh, "flags") THEN fh["flags"] ELSE 0))
               f2 == IF ~HasKey(f1, "small")
                       THEN SetKey(f1, "small", MakeSmall(f1, bytecodeSizeInBytes))
                       ELSE f1
           IN [f2 EXCEPT !["bytecodeSizeInBytes"] = new_size]
      ELSE [fh EXCEPT !["bytecodeSizeInBytes"] = new_size]

\* (C6's mutant: the buffer is grown to new_size bytes, start forgotten)
HBC86_Grow_NoStart(inst, start, new_size) ==
    IF start + new_size > ListLen(inst)
      THEN Extend(inst, Repeat(0, new_size - ListLen(inst)))
      ELSE inst

\* (C18's mutant: the buffer is cut to end where the write ends)
HBC86_Grow_Resize(inst, start, new_size) ==
    IF start + new_size > ListLen(inst)
      THEN Extend(inst, Repeat(0, start + new_size - ListLen(inst)))
      ELSE Take(inst, start + new_size)

\* HBC86: the instruction buffer grows whenever the write ends past it
HBC86_Grow(inst, start, new_size) ==
    IF start + new_size > ListLen(inst)
      THEN Extend(inst, Repeat(0, start + new_size - ListLen(inst)))
      ELSE inst

\* HBC96: growth is considered only when the bytecode got longer
HBC96_Grow(inst, start, bytecodeSizeInBytes, new_size) ==
    IF new_size > bytecodeSizeInBytes
      THEN IF start + new_size > ListLen(inst)
             THEN Extend(inst, Repeat(0, start + new_size - ListLen(inst)))
             ELSE inst
      ELSE inst

\* HBC86.setFunction(fid, func, disasm).  func is the tuple
\* <<functionName, paramCount, registerCount, symbolCount, insts, _>>; a
\* tuple of another length fails to unpack.  The stores into the header
\* happen in the order of the code, so an exception leaves what was stored
\* before it.
HBC86_setFunction(obj, fid, func, disasm) ==
    IF ~(fid >= 0 /\ fid < getFunctionCount(obj))
      THEN Outcome("InvalidId", obj, "none")
    ELSE IF Len(func) # 6
      THEN Outcome("ValueError", obj, "none")
    ELSE
      LET insts == func[5]
          fh1 == StoreCounts(obj.functionHeaders[fid + 1], func)
          obj1 == [obj EXCEPT !.functionHeaders[fid + 1] = fh1]
          offset == fh1["offset"]
          bytecodeSizeInBytes == fh1["bytecodeSizeInBytes"]
          start == offset - obj.instOffset
          asm == IF disasm THEN assemble(insts) ELSE [err |-> "ok", bc |-> insts]
      IN
      IF asm.err # "ok" THEN Outcome(asm.err, obj1, "none")
      ELSE
        LET bc == asm.bc
            original_size == bytecodeSizeInBytes
            new_size == ListLen(bc)
            inst1 == HBC86_Grow(obj.inst, start, new_size)
            fh2 == HBC86_Overflow(fh1, original_size, new_size)
            cp == memcpy(inst1, bc, start, ListLen(bc))
        IN Outcome(cp.err,
                   [obj EXCEPT !.functionHeaders[fid + 1] = fh2, !.inst = cp.dest],
                   "none")

\* HBC96.setFunction(fid, func, disasm)
HBC96_setFunction(obj, fid, func, disasm) ==
    IF ~(fid >= 0 /\ fid < getFunctionCount(obj))
      THEN Outcome("InvalidId", obj, "none")
    ELSE IF Len(func) # 6
      THEN Outcome("ValueError", obj, "none")
    ELSE
      LET insts == func[5]
          fh1 == StoreCounts(obj.functionHeaders[fid + 1], func)
          obj1 == [obj EXCEPT !.functionHeaders[fid + 1] = fh1]
          offset == fh1["offset"]
          bytecodeSizeInBytes == fh1["bytecodeSizeInBytes"]
          start == offset - obj.instOffset
          asm == IF disasm THEN assemble(insts) ELSE [err |-> "ok", bc |-> insts]
      IN
      IF asm.err # "ok" THEN Outcome(asm.err, obj1, "none")
      ELSE
        LET bc == asm.bc
            inst1 == HBC96_Grow(obj.inst, start, bytecodeSizeInBytes, ListLen(bc))
            fh2 == HBC96_Overflow(fh1, bytecodeSizeInBytes, ListLen(bc))
            cp == memcpy(inst1, bc, start, ListLen(bc))
        IN Outcome(cp.err,
                   [obj EXCEPT !.functionHeaders[fid + 1] = fh2, !.inst = cp.dest],
                   "none")

(* ------------------------------- strings ------------------------------ *)
\* A text (Python str) is a sequence of code points.
\* str.encode("utf-8") of one code point
EncodeChar(c) ==
    IF c < 128 THEN <<c>>
    ELSE IF c < 2048 THEN <<192 + (c \div 64), 128 + (c % 64)>>
    ELSE IF c < 65536
      THEN <<224 + (c \div 4096), 128 + ((c \div 64) % 64), 128 + (c % 64)>>
    ELSE <<240 + (c \div 262144), 128 + ((c \div 4096) % 64),
           128 + ((c \div 64) % 64), 128 + (c % 64)>>

\* val.encode("utf-8")
RECURSIVE encode(_)
encode(val) == IF val = <<>> THEN <<>> ELSE EncodeChar(Head(val)) \o encode(Tail(val))

IsCont(bytes, i) == i <= Len(bytes) /\ bytes[i] >= 128 /\ bytes[i] < 192

\* bytes.decode("utf-8"), strict: [err, text]
RECURSIVE decode(_)
decode(bytes) ==
    IF bytes = <<>> THEN [err |-> "ok", text |-> <<>>]
    ELSE
      LET b == bytes[1]
          n == IF b < 128 THEN 1
               ELSE IF b >= 194 /\ b < 224 THEN 2
               ELSE IF b >= 224 /\ b < 240 THEN 3
               ELSE IF b >= 240 /\ b < 245 THEN 4
               ELSE 0
          c == IF n = 1 THEN b
               ELSE IF n = 2 /\ IsCont(bytes, 2)
                 THEN (b - 192) * 64 + (bytes[2] - 128)
               ELSE IF n = 3 /\ IsCont(bytes, 2) /\ IsCont(bytes, 3)
                 THEN (b - 224) * 4096 + (bytes[2] - 128) * 64 + (bytes[3] - 128)
               ELSE IF n = 4 /\ IsCont(bytes, 2) /\ IsCont(bytes, 3) /\ IsCont(bytes, 4)
                 THEN (b - 240) * 262144 + (bytes[2] - 128) * 4096
                      + (bytes[3] - 128) * 64 + (bytes[4] - 128)
               ELSE -1
          wellFormed ==
              /\ c >= 0
              /\ n = 3 => c >= 2048 /\ ~(c >= 55296 /\ c < 57344)
              /\ n = 4 => c >= 65536 /\ c < 1114112
      IN IF ~wellFormed THEN [err |-> "UnicodeDecodeError", text |-> <<>>]
         ELSE LET r == decode(SubSeq(bytes, n + 1, Len(bytes))) IN
              IF r.err # "ok" THEN r
              ELSE [err |-> "ok", text |-> <<c>> \o r.text]

\* the value of a hex digit character, -1 for any other character
HexVal(c) ==
    IF c >= 48 /\ c <= 57 THEN c - 48
    ELSE IF c >= 97 /\ c <= 102 THEN c - 87
    ELSE IF c >= 65 /\ c <= 70 THEN c - 55
    ELSE -1

HexDigit(v) == IF v < 10 THEN 48 + v ELSE 87 + v

\* bytes.hex()
RECURSIVE hex(_)
hex(bytes) ==
    IF bytes = <<>> THEN <<>>
    ELSE <<HexDigit(Head(bytes) \div 16), HexDigit(Head(bytes) % 16)>>
         \o hex(Tail(bytes))

\* bytes.fromhex(val): [err, bytes].  (Whitespace between the pairs, which
\* fromhex skips, is not among the characters of the values drawn here.)
RECURSIVE fromhex(_)
fromhex(val) ==
    IF val = <<>> THEN [err |-> "ok", bytes |-> <<>>]
    ELSE IF Len(val) = 1 \/ HexVal(val[1]) < 0 \/ HexVal(val[2]) < 0
      THEN [err |-> "ValueError", bytes |-> <<>>]
    ELSE LET r == fromhex(SubSeq(val, 3, Len(val))) IN
         IF r.err # "ok" THEN r
         ELSE [err |-> "ok",
               bytes |-> <<HexVal(val[1]) * 16 + HexVal(val[2])>> \o r.bytes]

\* (isUTF16, offset, length) of string sid, through the overflow table when
\* the entry's length is the sentinel
ResolveString(obj, sid) ==
    LET stringTableEntry == obj.stringTableEntries[sid + 1]
        over == stringTableEntry.length >= INVALID_LENGTH
        stringTableOverflowEntry ==
            obj.stringTableOverflowEntries[stringTableEntry.offset + 1]
    IN [isUTF16 |-> stringTableEntry.isUTF16,
        offset |-> IF over THEN stringTableOverflowEntry.offset
                   ELSE stringTableEntry.offset,
        length |-> IF over THEN stringTableOverflowEntry.length
                   ELSE stringTableEntry.length]

\* getString(sid): returns <<text, <<isUTF16, offset, length>>>>
getString(obj, sid) ==
    IF ~(sid >= 0 /\ sid < getStringCount(obj))
      THEN Outcome("InvalidId", obj, "none")
    ELSE
      LET e == ResolveString(obj, sid)
          isUTF16 == e.isUTF16
          offset == e.offset
          length == IF isUTF16 # 0 THEN e.length * 2 ELSE e.length
          s == Expand(Slice(obj.stringStorage, offset, offset + length))
          d == decode(s)
      IN IF isUTF16 # 0
           THEN Outcome("ok", obj, <<hex(s), <<isUTF16, offset, length>>>>)
         ELSE IF d.err # "ok" THEN Outcome(d.err, obj, "none")
         ELSE Outcome("ok", obj, <<d.text, <<isUTF16, offset, length>>>>)

\* setString(sid, val)
setString(obj, sid, val) ==
    IF ~(sid >= 0 /\ sid < getStringCount(obj))
      THEN Outcome("InvalidId", obj, "none")
    ELSE
      LET e == ResolveString(obj, sid)
          isUTF16 == e.isUTF16
          offset == e.offset
          length == e.length
          h == fromhex(val)
          s == IF isUTF16 # 0 THEN h.bytes ELSE encode(val)
          l == IF isUTF16 # 0 THEN Len(s) \div 2 ELSE Len(val)
      IN IF isUTF16 # 0 /\ h.err # "ok" THEN Outcome(h.err, obj, "none")
         ELSE IF ~(l <= length) THEN Outcome("OverflowUnsupported", obj, "none")
         ELSE LET cp == memcpy(obj.stringStorage, Pack(s), offset, Len(s)) IN
              Outcome(cp.err, [obj EXCEPT !.stringStorage = cp.dest], "none")

(* ----------------------------- getFunction ---------------------------- *)
\* getFunction(fid, disasm): returns <<functionNameStr, paramCount,
\* registerCount, symbolCount, insts, functionHeader>>
getFunction(obj, fid, disasm) ==
    IF ~(fid >= 0 /\ fid < getFunctionCount(obj))
      THEN Outcome("InvalidId", obj, "none")
    ELSE
      LET functionHeader == obj.functionHeaders[fid + 1]
          offset == functionHeader["offset"]
          paramCount == functionHeader["paramCount"]
          registerCount == functionHeader["frameSize"]
          symbolCount == functionHeader["environmentSize"]
          bytecodeSizeInBytes == functionHeader["bytecodeSizeInBytes"]
          functionName == functionHeader["functionName"]
          start == offset - obj.instOffset
          end == start + bytecodeSizeInBytes
          bc == Slice(obj.inst, start, end)
          insts == IF disasm THEN disassemble(bc) ELSE bc
          name == getString(obj, functionName)
      IN IF name.err # "ok" THEN Outcome(name.err, obj, "none")
         ELSE Outcome("ok", obj,
                      <<name.ret[1], paramCount, registerCount, symbolCount,
                        insts, functionHeader>>)

(* ------------------------------- state -------------------------------- *)
\* obj86, obj96: the parsed object (self.obj) of an HBC86 and of an HBC96
\* instance.  last: the call made last, with each instance's exception
\* ("ok" for none) and returned value, and, for setFunction, the target's
\* header as it was before the call (pre86, pre96); repeat says that the
\* call is the one made just before it, with the same arguments.
\* calls: the number of edit calls made so far.
VARIABLES obj86, obj96, last, calls
vars == <<obj86, obj96, last, calls>>

\* A compact function header as the parser yields it
Header(offset, size, flags) ==
    [offset |-> offset, paramCount |-> 0, frameSize |-> 0, environmentSize |-> 0,
     bytecodeSizeInBytes |-> size, functionName |-> 0, infoOffset |-> 0,
     highestReadCacheIndex |-> 0, highestWriteCacheIndex |-> 0, flags |-> flags]

\* An overflowed function header as the parser yields it: the true values,
\* and in `small` the compact slot (size saturated, the same flags).
LargeHeader(offset, size, flags) ==
    LET fh == Header(offset, size, OrBit5(flags)) IN
    SetKey(fh, "small", [fh EXCEPT !["bytecodeSizeInBytes"] = max_small_size])

\* The parsed container: two functions laid out back to back (the second
\* either compact or overflowed), three strings (a name, a UTF-16 string
\* and one resolved through the overflow table) and one literal group.
Parsed(big) ==
    LET size1 == IF big THEN max_small_size + 1 ELSE 2 IN
    [header |-> [functionCount |-> 2, stringCount |-> 3, arrayBufferSize |-> 15,
                 objKeyBufferSize |-> 0, objValueBufferSize |-> 0],
     functionHeaders |->
        << Header(4096, 2, 0),
           IF big THEN LargeHeader(4098, size1, 1) ELSE Header(4098, size1, 1) >>,
     stringTableEntries |->
        << [isUTF16 |-> 0, offset |-> 0, length |-> 2],
           [isUTF16 |-> 1, offset |-> 2, length |-> 1],
           [isUTF16 |-> 0, offset |-> 0, length |-> INVALID_LENGTH] >>,
     stringTableOverflowEntries |-> << [offset |-> 4, length |-> 2] >>,
     stringStorage |-> Pack(<<102, 110, 97, 0, 120, 121>>),
     instOffset |-> 4096,
     inst |-> Extend(Pack(<<16, 17>>), Repeat(32, size1)),
     arrayBuffer |-> <<119, 1, 0, 2, 0, 3, 0, 4, 0, 5, 0, 6, 0, 7, 0>>,
     objKeyBuffer |-> <<>>,
     objValueBuffer |-> <<>>]

NoCall ==
    [op |-> "none", id |-> 0, arg |-> "none", disasm |-> FALSE,
     err86 |-> "ok", err96 |-> "ok", ret86 |-> "none", ret96 |-> "none",
     pre86 |-> "none", pre96 |-> "none", repeat |-> FALSE]

Init ==
    \E big \in BOOLEAN :
        /\ obj86 = Parsed(big)
        /\ obj96 = Parsed(big)
        /\ last = NoCall
        /\ calls = 0

(* ------------------------------- inputs ------------------------------- *)
\* [1, 2, .., n]
Ramp(n) == [i \in 1..n |-> [b |-> i, n |-> 1]]

ShortBytecodes == {Ramp(n) : n \in 0..MaxSmallLen}

LongBytecodes == {Repeat(119, max_small_size + k) : k \in 0..MaxOver}

\* func tuples: the name is a text that differs from every stored name, the
\* three counts are c, c + 1, c + 2 (pairwise different), the last
\* component stands for the header reference getFunction returned.
Func(c, insts) == <<"renamed", c, c + 1, c + 2, insts, "hdr">>

\* The setFunction calls <<fid, func, disasm>>: raw bytecodes of every
\* length and ids out of range on both sides,
RawCalls ==
    {<<fid, Func(c, bc), FALSE>> :
        fid \in 0..1, c \in 1..MaxCount, bc \in ShortBytecodes \cup LongBytecodes}
    \cup {<<fid, Func(1, Ramp(1)), FALSE>> : fid \in {-1, 2}}

\* structured instructions, valid or rejected by the assembler,
AsmCalls ==
    {<<fid, Func(MaxCount, [valid |-> v, bytes |-> bc]), TRUE>> :
        fid \in 0..1, v \in BOOLEAN, bc \in ShortBytecodes}

\* and a tuple of five components.
MalformedCalls == {<<0, <<"renamed", 1, 2, 3, Ramp(1)>>, FALSE>>}

\* texts over "a" (a hex digit, one UTF-8 byte) and "é" (no hex digit, two
\* UTF-8 bytes)
Texts == UNION {[1..n -> {97, 233}] : n \in 0..MaxStrLen}

\* The setString calls <<sid, val>>
StringCalls ==
    {<<sid, val>> : sid \in 0..2, val \in Texts}
    \cup {<<sid, <<97>>>> : sid \in {-1, 3}}

(* ------------------------------- actions ------------------------------ *)
SameCall(op, id, arg, disasm) ==
    /\ last.op = op
    /\ last.id = id
    /\ last.disasm = disasm
    /\ last.arg = arg

PreHeader(obj, fid) ==
    IF fid >= 0 /\ fid < getFunctionCount(obj) THEN obj.functionHeaders[fid + 1]
    ELSE "none"

SetFunction(fid, func, disasm) ==
    LET r86 == HBC86_setFunction(obj86, fid, func, disasm)
        r96 == HBC96_setFunction(obj96, fid, func, disasm)
    IN /\ calls < MaxCalls
       /\ calls' = calls + 1
       /\ obj86' = r86.obj
       /\ obj96' = r96.obj
       /\ last' = [op |-> "setFunction", id |-> fid, arg |-> func, disasm |-> disasm,
                   err86 |-> r86.err, err96 |-> r96.err,
                   ret86 |-> r86.ret, ret96 |-> r96.ret,
                   pre86 |-> PreHeader(obj86, fid), pre96 |-> PreHeader(obj96, fid),
                   repeat |-> SameCall("setFunction", fid, func, disasm)]

SetString(sid, val) ==
    LET r86 == setString(obj86, sid, val)
        r96 == setString(obj96, sid, val)
    IN /\ calls < MaxCalls
       /\ calls' = calls + 1
       /\ obj86' = r86.obj
       /\ obj96' = r96.obj
       /\ last' = [op |-> "setString", id |-> sid, arg |-> val, disasm |-> FALSE,
                   err86 |-> r86.err, err96 |-> r96.err,
                   ret86 |-> r86.ret, ret96 |-> r96.ret,
                   pre86 |-> "none", pre96 |-> "none",
                   repeat |-> SameCall("setString", sid, val, FALSE)]

Next ==
    \/ \E c \in RawCalls : SetFunction(c[1], c[2], c[3])
    \/ \E c \in AsmCalls : SetFunction(c[1], c[2], c[3])
    \/ \E c \in MalformedCalls : SetFunction(c[1], c[2], c[3])
    \/ \E c \in StringCalls : SetString(c[1], c[2])

Spec == Init /\ [][Next]_vars
(* ------------------------- reading the state -------------------------- *)
Versions == {86, 96}
Obj(v) == IF v = 86 THEN obj86 ELSE obj96
Err(v) == IF v = 86 THEN last.err86 ELSE last.err96
Pre(v) == IF v = 86 THEN last.pre86 ELSE last.pre96

\* The header the last call was aimed at, as it is now
Target(v) == Obj(v).functionHeaders[last.id + 1]

\* The bytecode the last setFunction call carried
CallBytes == IF last.disasm THEN last.arg[5].bytes ELSE last.arg[5]

\* The last call was setFunction and returned without an exception
SetFunctionOk(v) == last.op = "setFunction" /\ Err(v) = "ok"

Overflowed(fh) == Bit5(fh["flags"]) # 0

(* ------------------------------- claims ------------------------------- *)

\* C1: a successful setFunction with at most 32767 bytes on a header that
\* was overflowed (bit 5 set, small present) leaves bytecodeSizeInBytes ==
\* new, bit 5 clear and no small, in HBC86 and in HBC96.
C1_For(v) ==
    (SetFunctionOk(v) /\ Overflowed(Pre(v)) /\ HasKey(Pre(v), "small")
        /\ ListLen(CallBytes) <= max_small_size)
    => /\ Target(v)["bytecodeSizeInBytes"] = ListLen(CallBytes)
       /\ ~Overflowed(Target(v))
       /\ ~HasKey(Target(v), "small")

C1_OverflowCleared == \A v \in Versions : C1_For(v)

\* C2: a successful setFunction with more than 32767 bytes on a header that
\* was not overflowed leaves bytecodeSizeInBytes == new, bit 5 set and a
\* small whose bytecodeSizeInBytes is min(original, 32767) and whose flags
\* are the header's flags.
C2_OverflowCreated ==
    \A v \in Versions :
        (SetFunctionOk(v) /\ ~Overflowed(Pre(v)) /\ ~HasKey(Pre(v), "small")
            /\ ListLen(CallBytes) > max_small_size)
        => /\ Target(v)["bytecodeSizeInBytes"] = ListLen(CallBytes)
           /\ Overflowed(Target(v))
           /\ HasKey(Target(v), "small")
           /\ Target(v)["small"]["bytecodeSizeInBytes"]
                = Min(Pre(v)["bytecodeSizeInBytes"], max_small_size)
           /\ Target(v)["small"]["flags"] = Target(v)["flags"]

C2_Witness ==
    /\ \A v \in Versions :
          SetFunctionOk(v) /\ ~Overflowed(Pre(v)) /\ ~HasKey(Pre(v), "small")
    /\ ListLen(CallBytes) = max_small_size + 1
    /\ last.pre86["bytecodeSizeInBytes"] = 1
    /\ obj96.functionHeaders[last.id + 1]["small"]["bytecodeSizeInBytes"] = 1

\* C3: a successful setFunction with at most 32767 bytes on a header that
\* was not overflowed leaves bytecodeSizeInBytes == new, bit 5 clear and no
\* small, whether or not the bytecode got longer; on such a header the
\* overflow form appears exactly when new >= 32768.
C3_NoOverflowUpToMax ==
    \A v \in Versions :
        (SetFunctionOk(v) /\ ~Overflowed(Pre(v)) /\ ~HasKey(Pre(v), "small"))
        => /\ Target(v)["bytecodeSizeInBytes"] = ListLen(CallBytes)
           /\ ListLen(CallBytes) <= max_small_size
                => ~Overflowed(Target(v)) /\ ~HasKey(Target(v), "small")
           /\ HasKey(Target(v), "small") <=> ListLen(CallBytes) >= max_small_size + 1

C3_Witness ==
    /\ \A v \in Versions :
          /\ SetFunctionOk(v) /\ ~Overflowed(Pre(v)) /\ ~HasKey(Pre(v), "small")
          /\ Pre(v)["bytecodeSizeInBytes"] < ListLen(CallBytes)
          /\ ~HasKey(Target(v), "small")
    /\ ListLen(CallBytes) = max_small_size

\* C4: in every reachable state every function header of both containers
\* has bit 5 of flags set if and only if it has a small sub-record.
C4_FlagIffSmall ==
    \A v \in Versions : \A i \in 1..Len(Obj(v).functionHeaders) :
        Overflowed(Obj(v).functionHeaders[i]) <=> HasKey(Obj(v).functionHeaders[i], "small")

\* reached: a call took a header out of the overflow form (HBC86) after an
\* earlier call had put a header into it
C4_Witness ==
    /\ calls = 2
    /\ SetFunctionOk(86)
    /\ HasKey(last.pre86, "small") /\ ~HasKey(Target(86), "small")
    /\ \E i \in 1..2 : HasKey(obj86.functionHeaders[i], "small")

\* C5: in every reachable state, a header that has a small sub-record has
\* small.bytecodeSizeInBytes <= 32767 and small.flags equal to its flags.
C5_SmallConsistent ==
    \A v \in Versions : \A i \in 1..Len(Obj(v).functionHeaders) :
        LET fh == Obj(v).functionHeaders[i] IN
        HasKey(fh, "small")
        => /\ fh["small"]["bytecodeSizeInBytes"] <= max_small_size
           /\ fh["small"]["flags"] = fh["flags"]

\* reached: a setFunction of more than 32767 bytes on a header that already
\* had its small, and one that has just made it
C5_Witness ==
    /\ \A v \in Versions : SetFunctionOk(v) /\ HasKey(Target(v), "small")
    /\ ListLen(CallBytes) > max_small_size
    /\ HasKey(last.pre96, "small")
    /\ \E i \in 1..2 : i # last.id + 1 /\ HasKey(obj96.functionHeaders[i], "small")

\* C6: in every reachable state every function's byte range
\* [offset - instOffset, offset - instOffset + bytecodeSizeInBytes) lies
\* within the instruction buffer, in both containers.
C6_RangeInBuffer ==
    \A v \in Versions : \A i \in 1..Len(Obj(v).functionHeaders) :
        LET fh == Obj(v).functionHeaders[i]
            start == fh["offset"] - Obj(v).instOffset
        IN /\ 0 <= start
           /\ start + fh["bytecodeSizeInBytes"] <= ListLen(Obj(v).inst)

\* reached: function 0 was grown to 32768 bytes, which grew the parsed
\* buffer of 4 bytes, and was then set to a shorter bytecode
C6_Witness ==
    /\ calls = 2
    /\ \A v \in Versions :
          /\ SetFunctionOk(v)
          /\ ListLen(Obj(v).inst) = max_small_size + 1
          /\ Pre(v)["bytecodeSizeInBytes"] = max_small_size + 1
    /\ last.id = 0
    /\ ListLen(CallBytes) = 1

\* C7: a setFunction call that fails leaves the container exactly as it was
\* before the call.
C7_AllOrNothing ==
    [][ /\ (last'.op = "setFunction" /\ last'.err86 # "ok") => obj86' = obj86
        /\ (last'.op = "setFunction" /\ last'.err96 # "ok") => obj96' = obj96 ]_vars

\* C8: after a successful setFunction(fid, (name, p, r, s, bc, _),
\* disasm=false), getFunction(fid, disasm=false) returns paramCount == p,
\* registerCount == r, symbolCount == s and insts == bc.
C8_RoundTrip ==
    \A v \in Versions :
        (SetFunctionOk(v) /\ ~last.disasm)
        => LET g == getFunction(Obj(v), last.id, FALSE) IN
           /\ g.err = "ok"
           /\ g.ret[2] = last.arg[2]
           /\ g.ret[3] = last.arg[3]
           /\ g.ret[4] = last.arg[4]
           /\ g.ret[5] = last.arg[5]

\* C9: a setFunction call on a function in range that repeats the call made
\* just before it (same fid, same payload, same disasm) leaves both
\* containers as the first of the two calls left them.
C9_Idempotent ==
    [][ (last'.op = "setFunction" /\ last'.repeat
            /\ last'.id >= 0 /\ last'.id < getFunctionCount(obj86))
        => obj86' = obj86 /\ obj96' = obj96 ]_vars

\* reached: the second of two equal setFunction calls of more than 32767
\* bytes, so the first made the header overflow and the second found it so
C9_Witness ==
    /\ last.op = "setFunction" /\ last.repeat
    /\ last.err86 = "ok" /\ last.err96 = "ok"
    /\ ListLen(CallBytes) > max_small_size
    /\ HasKey(last.pre86, "small") /\ HasKey(last.pre96, "small")

\* What setFunction(fid, ..) may change between o and o2: of function fid
\* the keys in MutableKeys, and the instruction buffer; nothing else.
MutableKeys ==
    {"paramCount", "frameSize", "environmentSize", "bytecodeSizeInBytes",
     "flags", "small"}

FrameOk(o, o2, fid) ==
    /\ [o2 EXCEPT !.functionHeaders = o.functionHeaders, !.inst = o.inst] = o
    /\ Len(o2.functionHeaders) = Len(o.functionHeaders)
    /\ \A i \in 1..Len(o.functionHeaders) :
          IF i # fid + 1 THEN o2.functionHeaders[i] = o.functionHeaders[i]
          ELSE LET h == o.functionHeaders[i]
                   h2 == o2.functionHeaders[i]
               IN /\ DOMAIN h2 \ MutableKeys = DOMAIN h \ MutableKeys
                  /\ \A k \in DOMAIN h \ MutableKeys : h2[k] = h[k]

\* C10: every setFunction(fid, ..) call, failed or not, changes at most
\* function fid's paramCount, frameSize, environmentSize,
\* bytecodeSizeInBytes, flags and small and the instruction buffer: fid's
\* offset and functionName, every other function header, the file header
\* with its counts and sizes, the string tables and storage and the three
\* literal buffers stay as they were.
C10_Frame ==
    [][ last'.op = "setFunction"
        => FrameOk(obj86, obj86', last'.id) /\ FrameOk(obj96, obj96', last'.id) ]_vars

\* reached: a successful setFunction that changed the counts, the size, the
\* flags, made small and grew the buffer, and whose name argument is not
\* the stored name
C10_Witness ==
    \A v \in Versions :
        /\ SetFunctionOk(v)
        /\ Pre(v)["paramCount"] # Target(v)["paramCount"]
        /\ ~HasKey(Pre(v), "small") /\ HasKey(Target(v), "small")
        /\ Target(v)["flags"] # Pre(v)["flags"]
        /\ ListLen(Obj(v).inst) = max_small_size + 1
        /\ last.arg[1] = "renamed" /\ Target(v)["functionName"] = 0

(* --------------------------- string editing --------------------------- *)
\* The longest hex value drawn, in decoded bytes
MaxHexBytes == 3

\* hex values "", "aa", "aaaa", ..: n bytes 0xAA
HexText(n) == [i \in 1..(2 * n) |-> 97]

\* setString calls with hex values, on the UTF-16 string (one code unit)
HexCalls == {<<1, HexText(n)>> : n \in 0..MaxHexBytes}

StringNext ==
    \/ \E c \in StringCalls : SetString(c[1], c[2])
    \/ \E c \in HexCalls : SetString(c[1], c[2])

\* The container under setString calls alone
StringSpec == Init /\ [][StringNext]_vars

\* The last call was setString on a string in range
SetStringInRange == last.op = "setString" /\ last.id >= 0 /\ last.id < getStringCount(obj86)

\* The byte range [lo, hi) of slot sid in stringStorage
SlotRange(obj, sid) ==
    LET e == ResolveString(obj, sid) IN
    [lo |-> e.offset,
     hi |-> e.offset + (IF e.isUTF16 # 0 THEN 2 * e.length ELSE e.length)]

\* C11: setString on a UTF-16 slot of `length` code units fails with
\* OverflowUnsupported and leaves stringStorage unchanged for every hex
\* value that decodes to more than 2*length bytes, whether that byte count
\* is even or odd.
C11_HexTooLong ==
    [][ \A v \in Versions :
          LET e == ResolveString(Obj(v), last'.id)
              h == fromhex(last'.arg)
              err == IF v = 86 THEN last'.err86 ELSE last'.err96
              after == IF v = 86 THEN obj86' ELSE obj96'
          IN (/\ last'.op = "setString"
              /\ last'.id >= 0 /\ last'.id < getStringCount(Obj(v))
              /\ e.isUTF16 # 0
              /\ h.err = "ok"
              /\ Len(h.bytes) > 2 * e.length)
             => /\ err = "OverflowUnsupported"
                /\ after.stringStorage = Obj(v).stringStorage ]_vars

(* -------------------- serialized literal buffers ---------------------- *)
\* The tag byte: bit 7 says that the count is extended by the next byte,
\* bits 6..4 give the kind, bits 3..0 the count (or its high bits).
NullTag == 0
TrueTag == 16
FalseTag == 32
NumberTag == 48
LongStringTag == 64
ShortStringTag == 80
ByteStringTag == 96
IntegerTag == 112
TagMask == 112

\* keyTag & TagMask, keyTag & 0x0f and keyTag & 0x80 for a byte keyTag
AndTagMask(keyTag) == ((keyTag \div 16) % 8) * 16
AndLow4(keyTag) == keyTag % 16
AndBit7(keyTag) == (keyTag \div 128) * 128

\* _checkBufferTag(buf, iid): <<count, kind>>; buf[i] of a Python list
\* raises IndexError past its end
_checkBufferTag(buf, iid) ==
    IF iid + 1 > Len(buf) THEN [err |-> "IndexError", ret |-> "none"]
    ELSE LET keyTag == buf[iid + 1] IN
         IF AndBit7(keyTag) # 0
           THEN IF iid + 2 > Len(buf) THEN [err |-> "IndexError", ret |-> "none"]
                ELSE [err |-> "ok",
                      ret |-> <<AndLow4(keyTag) * 256 + buf[iid + 2],
                                AndTagMask(keyTag)>>]
         ELSE [err |-> "ok", ret |-> <<AndLow4(keyTag), AndTagMask(keyTag)>>]

\* An unsigned 32-bit value hi * 65536 + lo, kept as its two 16-bit halves
\* (it does not fit TLC's 32-bit integers)
U32(hi, lo) == [hi |-> hi, lo |-> lo]

\* (C15's mutant: the bytes are taken most significant first)
unpack_BigEndian(buf, start, w) ==
    IF start + w > Len(buf) THEN [err |-> "StructError", val |-> 0]
    ELSE [err |-> "ok",
          val |-> IF w = 2 THEN buf[start + 2] + 256 * buf[start + 1]
                  ELSE U32(buf[start + 2] + 256 * buf[start + 1],
                           buf[start + 4] + 256 * buf[start + 3])]

\* unpack("<H" | "<L", bytes(buf[start:start+w])): the slice is cut at the
\* end of the list, and unpack raises struct.error on fewer than w bytes
unpack(buf, start, w) ==
    IF start + w > Len(buf) THEN [err |-> "StructError", val |-> 0]
    ELSE [err |-> "ok",
          val |-> IF w = 2 THEN buf[start + 1] + 256 * buf[start + 2]
                  ELSE U32(buf[start + 3] + 256 * buf[start + 4],
                           buf[start + 1] + 256 * buf[start + 2])]

\* unpack("<d", ..): the double is kept as the eight bytes that encode it
unpackDouble(buf, start) ==
    IF start + 8 > Len(buf) THEN [err |-> "StructError", val |-> 0]
    ELSE [err |-> "ok", val |-> [double |-> SubSeq(buf, start + 1, start + 8)]]

\* _SLPToString(tag, buf, iid, ind): (type, val, ind); None is "None"
_SLPToString(tag, buf, iid, ind) ==
    LET start == iid + ind
        R(e, type, val, i) == [err |-> e, type |-> type, val |-> val, ind |-> i]
    IN IF tag = ByteStringTag
         THEN IF start + 1 > Len(buf) THEN R("IndexError", "None", "None", ind)
              ELSE R("ok", "String", buf[start + 1], ind + 1)
       ELSE IF tag = ShortStringTag
         THEN LET u == unpack(buf, start, 2) IN R(u.err, "String", u.val, ind + 2)
       ELSE IF tag = LongStringTag
         THEN LET u == unpack(buf, start, 4) IN R(u.err, "String", u.val, ind + 4)
       ELSE IF tag = NumberTag
         THEN LET u == unpackDouble(buf, start) IN R(u.err, "Number", u.val, ind + 8)
       ELSE IF tag = IntegerTag
         THEN LET u == unpack(buf, start, 4) IN R(u.err, "Integer", u.val, ind + 4)
       ELSE IF tag = NullTag THEN R("ok", "Null", "None", ind)
       ELSE IF tag = TrueTag THEN R("ok", "Boolean", TRUE, ind)
       ELSE IF tag = FalseTag THEN R("ok", "Boolean", FALSE, ind)
       ELSE R("ok", "Empty", "None", ind)

\* The loop of getArray, getObjKey and getObjValue: n more elements read
\* from position ind on, appended to arr; t is the type of the last one
RECURSIVE ReadElements(_, _, _, _, _, _, _)
ReadElements(tag, buf, iid, ind, n, t, arr) ==
    IF n = 0 THEN [err |-> "ok", ret |-> <<t, arr>>]
    ELSE LET e == _SLPToString(tag, buf, iid, ind) IN
         IF e.err # "ok" THEN [err |-> e.err, ret |-> "none"]
         ELSE ReadElements(tag, buf, iid, e.ind, n - 1, e.type, Append(arr, e.val))

\* The body the three getters share after their bounds check
ReadGroup(buf, iid) ==
    LET tag == _checkBufferTag(buf, iid) IN
    IF tag.err # "ok" THEN [err |-> tag.err, ret |-> "none"]
    ELSE LET ind == IF tag.ret[1] > 15 THEN 2 ELSE 1 IN
         ReadElements(tag.ret[2], buf, iid, ind, tag.ret[1], "None", <<>>)

getArrayBufferSize(obj) == obj.header.arrayBufferSize
getObjKeyBufferSize(obj) == obj.header.objKeyBufferSize
getObjValueBufferSize(obj) == obj.header.objValueBufferSize

\* getArray(aid): (type, values)
getArray(obj, aid) ==
    IF ~(aid >= 0 /\ aid < getArrayBufferSize(obj))
      THEN Outcome("InvalidId", obj, "none")
    ELSE LET r == ReadGroup(obj.arrayBuffer, aid) IN Outcome(r.err, obj, r.ret)

\* (C12's mutant: the upper bound admits kid == objKeyBufferSize)
getObjKey_OffByOne(obj, kid) ==
    IF ~(kid >= 0 /\ kid <= getObjKeyBufferSize(obj))
      THEN Outcome("InvalidId", obj, "none")
    ELSE LET r == ReadGroup(obj.objKeyBuffer, kid) IN Outcome(r.err, obj, r.ret)

\* getObjKey(kid): (type, keys)
getObjKey(obj, kid) ==
    IF ~(kid >= 0 /\ kid < getObjKeyBufferSize(obj))
      THEN Outcome("InvalidId", obj, "none")
    ELSE LET r == ReadGroup(obj.objKeyBuffer, kid) IN Outcome(r.err, obj, r.ret)

\* getObjValue(vid): (type, values)
getObjValue(obj, vid) ==
    IF ~(vid >= 0 /\ vid < getObjValueBufferSize(obj))
      THEN Outcome("InvalidId", obj, "none")
    ELSE LET r == ReadGroup(obj.objValueBuffer, vid) IN Outcome(r.err, obj, r.ret)

(* ------------------------- the whole interface ------------------------ *)
\* The parsed container with the three literal buffers a, k, v
Loaded(big, a, k, v) ==
    [Parsed(big) EXCEPT !.arrayBuffer = a, !.objKeyBuffer = k,
                        !.objValueBuffer = v,
                        !.header.arrayBufferSize = Len(a),
                        !.header.objKeyBufferSize = Len(k),
                        !.header.objValueBufferSize = Len(v)]

\* A read call: the containers stay, last takes the call and what it gave
Read(op, id, disasm, r86, r96) ==
    /\ last' = [op |-> op, id |-> id, arg |-> "none", disasm |-> disasm,
                err86 |-> r86.err, err96 |-> r96.err,
                ret86 |-> r86.ret, ret96 |-> r96.ret,
                pre86 |-> "none", pre96 |-> "none", repeat |-> FALSE]
    /\ UNCHANGED <<obj86, obj96, calls>>

GetFunction(fid, disasm) ==
    Read("getFunction", fid, disasm,
         getFunction(obj86, fid, disasm), getFunction(obj96, fid, disasm))

GetString(sid) ==
    Read("getString", sid, FALSE, getString(obj86, sid), getString(obj96, sid))

GetArray(aid) ==
    Read("getArray", aid, FALSE, getArray(obj86, aid), getArray(obj96, aid))

GetObjKey(kid) ==
    Read("getObjKey", kid, FALSE, getObjKey(obj86, kid), getObjKey(obj96, kid))

GetObjValue(vid) ==
    Read("getObjValue", vid, FALSE, getObjValue(obj86, vid), getObjValue(obj96, vid))

\* Ids on both sides of 0..n-1
Ids(n) == (-1)..n

\* One key group (a one-byte string 65) and one value group (one true)
ApiInit ==
    \E big \in BOOLEAN :
        /\ obj86 = Loaded(big, Parsed(big).arrayBuffer, <<97, 65>>, <<17>>)
        /\ obj96 = obj86
        /\ last = NoCall
        /\ calls = 0

ApiNext ==
    \/ \E fid \in Ids(getFunctionCount(obj86)) :
          SetFunction(fid, Func(1, Ramp(1)), FALSE)
    \/ \E sid \in Ids(getStringCount(obj86)) : SetString(sid, <<97>>)
    \/ \E fid \in Ids(getFunctionCount(obj86)) : GetFunction(fid, FALSE)
    \/ \E sid \in Ids(getStringCount(obj86)) : GetString(sid)
    \/ \E aid \in Ids(getArrayBufferSize(obj86)) : GetArray(aid)
    \/ \E kid \in Ids(getObjKeyBufferSize(obj86)) : GetObjKey(kid)
    \/ \E vid \in Ids(getObjValueBufferSize(obj86)) : GetObjValue(vid)

\* The container under all seven methods that take an id
ApiSpec == ApiInit /\ [][ApiNext]_vars

\* The count or size that bounds the ids of method op
IdBound(o, op) ==
    IF op \in {"getFunction", "setFunction"} THEN o.header.functionCount
    ELSE IF op \in {"getString", "setString"} THEN o.header.stringCount
    ELSE IF op = "getArray" THEN o.header.arrayBufferSize
    ELSE IF op = "getObjKey" THEN o.header.objKeyBufferSize
    ELSE o.header.objValueBufferSize

\* C12: each of getFunction, setFunction, getString, setString, getArray,
\* getObjKey and getObjValue fails with InvalidId, leaving the container
\* unchanged, when its id is negative or >= the corresponding count or
\* size, and never fails with InvalidId when the id is inside the range.
C12_InvalidId ==
    [][ LET inside86 == last'.id >= 0 /\ last'.id < IdBound(obj86, last'.op)
            inside96 == last'.id >= 0 /\ last'.id < IdBound(obj96, last'.op)
        IN /\ ~inside86 => last'.err86 = "InvalidId" /\ obj86' = obj86
           /\ ~inside96 => last'.err96 = "InvalidId" /\ obj96' = obj96
           /\ inside86 => last'.err86 # "InvalidId"
           /\ inside96 => last'.err96 # "InvalidId" ]_vars

\* reached: after an edit, a read of the key buffer at kid ==
\* objKeyBufferSize, refused by both classes
C12_Witness ==
    /\ calls > 0
    /\ last.op = "getObjKey"
    /\ last.id = getObjKeyBufferSize(obj86)
    /\ last.err86 = "InvalidId" /\ last.err96 = "InvalidId"

(* ------------------------- reading the literals ----------------------- *)
\* The most elements in a group drawn
MaxElems == 2

\* The least count that does not fit the tag byte's four bits
LargeCount == 16

Kinds ==
    {NullTag, TrueTag, FalseTag, NumberTag, LongStringTag, ShortStringTag,
     ByteStringTag, IntegerTag}

\* The payload width of a kind, in bytes
Width(kind) ==
    IF kind = ByteStringTag THEN 1
    ELSE IF kind = ShortStringTag THEN 2
    ELSE IF kind \in {LongStringTag, IntegerTag} THEN 4
    ELSE IF kind = NumberTag THEN 8
    ELSE 0

\* A serialized group: the header (two bytes when ext), then count
\* payloads whose bytes are 65, 66, .., 96, 65, ..
Group(kind, ext, count) ==
    (IF ext THEN <<128 + kind + (count \div 256), count % 256>>
     ELSE <<kind + count>>)
    \o [j \in 1..(count * Width(kind)) |-> 65 + ((j - 1) % 32)]

Groups ==
    {Group(kind, ext, count) : kind \in Kinds, ext \in BOOLEAN, count \in 0..MaxElems}
    \cup {Group(kind, TRUE, LargeCount) : kind \in {k \in Kinds : Width(k) <= 2}}

\* The literal buffer of the decoding scenario: tag byte 0x77, then the
\* seven two-byte values 1..7
Scenario == <<119, 1, 0, 2, 0, 3, 0, 4, 0, 5, 0, 6, 0, 7, 0>>

\* The same payload under the tag byte 0x57 (ShortStringTag, count 7)
ShortScenario == <<ShortStringTag + 7>> \o Tail(Scenario)

\* The array buffer holds one group; the key buffer the same group after
\* an empty group; the value buffer the group twice.
SLPInit ==
    \E g \in Groups \cup {Scenario, ShortScenario} :
        /\ obj86 = Loaded(FALSE, g, <<NullTag>> \o g, g \o g)
        /\ obj96 = obj86
        /\ last = NoCall
        /\ calls = 0

SLPNext ==
    \/ \E aid \in Ids(getArrayBufferSize(obj86)) : GetArray(aid)
    \/ \E kid \in Ids(getObjKeyBufferSize(obj86)) : GetObjKey(kid)
    \/ \E vid \in Ids(getObjValueBufferSize(obj86)) : GetObjValue(vid)

\* The container under the three literal getters
SLPSpec == SLPInit /\ [][SLPNext]_vars

\* The buffer method op reads
BufferOf(o, op) ==
    IF op = "getArray" THEN o.arrayBuffer
    ELSE IF op = "getObjKey" THEN o.objKeyBuffer
    ELSE o.objValueBuffer

\* The last call was a literal getter at an offset in range
LiteralRead ==
    /\ last.op \in {"getArray", "getObjKey", "getObjValue"}
    /\ last.id >= 0 /\ last.id < Len(BufferOf(obj86, last.op))

\* The group at offset iid of buf as the format lays it out: extension
\* bit, kind, count, header bytes, and whether it lies inside buf
Layout(buf, iid) ==
    LET tag == buf[iid + 1]
        ext == tag >= 128
        count == IF ~ext THEN tag % 16
                 ELSE IF iid + 2 <= Len(buf) THEN (tag % 16) * 256 + buf[iid + 2]
                 ELSE 0
        kind == ((tag \div 16) % 8) * 16
        headerBytes == IF ext THEN 2 ELSE 1
    IN [ext |-> ext, kind |-> kind, count |-> count, headerBytes |-> headerBytes,
        fits |-> iid + headerBytes + count * Width(kind) <= Len(buf)]

\* The unsigned little-endian integer in the w bytes of buf from pos on:
\* byte i has weight 256^i; four bytes give the two halves of a U32
RECURSIVE LittleEndian(_, _, _)
LittleEndian(buf, pos, w) ==
    IF w = 4 THEN [lo |-> LittleEndian(buf, pos, 2), hi |-> LittleEndian(buf, pos + 2, 2)]
    ELSE IF w = 0 THEN 0
    ELSE buf[pos + 1] + 256 * LittleEndian(buf, pos + 1, w - 1)

\* The values the format gives the group at iid: count payloads from
\* iid + headerBytes on
Payloads(buf, iid) ==
    LET g == Layout(buf, iid)
        w == Width(g.kind)
    IN [k \in 1..g.count |->
          LET pos == iid + g.headerBytes + (k - 1) * w IN
          IF g.kind = NullTag THEN "None"
          ELSE IF g.kind = TrueTag THEN TRUE
          ELSE IF g.kind = FalseTag THEN FALSE
          ELSE IF g.kind = NumberTag THEN [double |-> SubSeq(buf, pos + 1, pos + 8)]
          ELSE LittleEndian(buf, pos, w)]

\* C13: when bit 7 of the tag byte is set the count is the 12-bit value
\* and the first payload is read at iid+2, for every value of the count;
\* when it is clear the count is tag & 0x0F and the first payload is read
\* at iid+1.
C13_HeaderBytes ==
    \A v \in Versions :
        LET buf == BufferOf(Obj(v), last.op)
            g == Layout(buf, last.id)
            ret == IF v = 86 THEN last.ret86 ELSE last.ret96
        IN (LiteralRead /\ g.fits)
           => /\ Err(v) = "ok"
              /\ Len(ret[2]) = g.count
              /\ g.count > 0 => ret[2][1] = Payloads(buf, last.id)[1]

\* C14: for a group of kind ByteStringTag, ShortStringTag, LongStringTag
\* or IntegerTag the getters return exactly count values, the k-th being
\* the unsigned little-endian integer in the w bytes at
\* iid + headerBytes + k*w; for NullTag, TrueTag and FalseTag they return
\* count copies of null, true, false.
C14_Payloads ==
    \A v \in Versions :
        LET buf == BufferOf(Obj(v), last.op)
            g == Layout(buf, last.id)
            ret == IF v = 86 THEN last.ret86 ELSE last.ret96
        IN (LiteralRead /\ g.fits /\ g.kind # NumberTag)
           => /\ Err(v) = "ok"
              /\ ret[2] = Payloads(buf, last.id)

\* C15: with arrayBuffer the fifteen bytes 0x77, 1,0, 2,0, .., 7,0 and
\* arrayBufferSize 15, the tag byte is decoded as ShortStringTag with count
\* 7 and no extension, and getArray(0) returns ("String", [1,2,3,4,5,6,7]).
C15_Scenario ==
    \A v \in Versions :
        LET ret == IF v = 86 THEN last.ret86 ELSE last.ret96 IN
        (/\ last.op = "getArray" /\ last.id = 0
         /\ Obj(v).arrayBuffer = Scenario
         /\ Obj(v).header.arrayBufferSize = 15)
        => /\ AndBit7(Scenario[1]) = 0
           /\ _checkBufferTag(Obj(v).arrayBuffer, 0).ret = <<7, ShortStringTag>>
           /\ Err(v) = "ok"
           /\ ret = <<"String", <<1, 2, 3, 4, 5, 6, 7>>>>

\* C15 as the code has it: 0x77 is kind IntegerTag (7 << 4) with count 7
\* and no extension, seven four-byte payloads do not fit the fourteen
\* bytes that follow, and getArray(0) fails in unpack; under the tag byte
\* 0x57 (ShortStringTag, count 7) the same payload gives
\* ("String", [1,2,3,4,5,6,7]).
C15_ScenarioAmended ==
    \A v \in Versions :
        LET ret == IF v = 86 THEN last.ret86 ELSE last.ret96
            buf == Obj(v).arrayBuffer
        IN /\ (last.op = "getArray" /\ last.id = 0 /\ buf = Scenario)
              => /\ AndBit7(buf[1]) = 0
                 /\ _checkBufferTag(buf, 0).ret = <<7, IntegerTag>>
                 /\ Err(v) = "StructError"
           /\ (last.op = "getArray" /\ last.id = 0 /\ buf = ShortScenario)
              => /\ AndBit7(buf[1]) = 0
                 /\ _checkBufferTag(buf, 0).ret = <<7, ShortStringTag>>
                 /\ Err(v) = "ok"
                 /\ ret = <<"String", <<1, 2, 3, 4, 5, 6, 7>>>>

\* reached: getArray(0) has been called on the scenario's buffer
C15_Witness ==
    /\ last.op = "getArray" /\ last.id = 0
    /\ obj86.arrayBuffer = Scenario /\ obj96.arrayBuffer = Scenario
    /\ obj86.header.arrayBufferSize = 15
    /\ last.err86 # "ok" /\ last.err96 # "ok"

\* The kind label that bits 6..4 of a tag stand for
Label(kind) ==
    IF kind \in {ByteStringTag, ShortStringTag, LongStringTag} THEN "String"
    ELSE IF kind = NumberTag THEN "Number"
    ELSE IF kind = IntegerTag THEN "Integer"
    ELSE IF kind = NullTag THEN "Null"
    ELSE IF kind \in {TrueTag, FalseTag} THEN "Boolean"
    ELSE "Empty"

\* C16: for every offset in range, one whose group has count 0 included,
\* the kind label a getter returns is one of "String", "Number", "Integer",
\* "Null", "Boolean", "Empty", namely the one that bits 6..4 of the tag
\* stand for.
C16_KindLabel ==
    \A v \in Versions :
        LET buf == BufferOf(Obj(v), last.op)
            ret == IF v = 86 THEN last.ret86 ELSE last.ret96
        IN (LiteralRead /\ Err(v) = "ok")
           => ret[1] = Label(Layout(buf, last.id).kind)

(* ------------------------ reading the strings ------------------------- *)
\* Slot sid as the tables give it: the entry itself, or the overflow entry
\* it points to when its length is the sentinel; n is its size in bytes
Slot(o, sid) ==
    LET entry == o.stringTableEntries[sid + 1]
        src == IF entry.length >= INVALID_LENGTH
               THEN o.stringTableOverflowEntries[entry.offset + 1]
               ELSE entry
    IN [isUTF16 |-> entry.isUTF16, offset |-> src.offset, length |-> src.length,
        n |-> IF entry.isUTF16 # 0 THEN 2 * src.length ELSE src.length]

\* getString(sid) returns the n bytes of slot sid, as hex or as text
ReadsSlot(o, sid) ==
    LET slot == Slot(o, sid)
        bytes == Expand(Slice(o.stringStorage, slot.offset, slot.offset + slot.n))
        g == getString(o, sid)
    IN /\ g.err = "ok"
       /\ g.ret[2] = <<slot.isUTF16, slot.offset, slot.n>>
       /\ g.ret[1] = IF slot.isUTF16 # 0 THEN hex(bytes) ELSE decode(bytes).text

\* setString(sid, val) went from o to o2 with exception err: it checked
\* the new length against slot sid's length and wrote from its offset on
WritesSlot(o, o2, sid, val, err) ==
    LET slot == Slot(o, sid)
        bytes == IF slot.isUTF16 # 0 THEN fromhex(val).bytes ELSE encode(val)
        newLen == IF slot.isUTF16 # 0 THEN Len(bytes) \div 2 ELSE Len(val)
        wellFormed == slot.isUTF16 # 0 => fromhex(val).err = "ok"
    IN wellFormed
       => /\ newLen > slot.length <=> err = "OverflowUnsupported"
          /\ err = "ok"
             => /\ Take(o2.stringStorage, slot.offset) = Take(o.stringStorage, slot.offset)
                /\ Expand(Slice(o2.stringStorage, slot.offset, slot.offset + Len(bytes)))
                   = bytes

\* C17: getString and setString resolve a slot the same way for every sid
\* in range, through the overflow table when the entry's length is the
\* sentinel: getString returns exactly the slot's n bytes (n = length, or
\* 2*length for UTF-16), and setString checks the new length against the
\* same length and writes from the same offset on.
C17_SameSlot ==
    [][ /\ \A sid \in 0..(getStringCount(obj86') - 1) :
              ReadsSlot(obj86', sid) /\ ReadsSlot(obj96', sid)
        /\ (last'.op = "setString" /\ last'.id >= 0
            /\ last'.id < getStringCount(obj86))
           => /\ WritesSlot(obj86, obj86', last'.id, last'.arg, last'.err86)
              /\ WritesSlot(obj96, obj96', last'.id, last'.arg, last'.err96) ]_vars

\* C19: a successful setString(sid, value) changes only bytes of
\* stringStorage inside slot sid's own range [offset, offset + n), for
\* every accepted value, values with characters of more than one UTF-8
\* byte included: the length of stringStorage, the string table, the
\* overflow table and all bytes outside the slot stay as they were.
C19_InsideSlot ==
    [][ \A v \in Versions :
          LET o == Obj(v)
              o2 == IF v = 86 THEN obj86' ELSE obj96'
              err == IF v = 86 THEN last'.err86 ELSE last'.err96
              slot == Slot(o, last'.id)
          IN (last'.op = "setString" /\ err = "ok")
             => /\ ListLen(o2.stringStorage) = ListLen(o.stringStorage)
                /\ o2.stringTableEntries = o.stringTableEntries
                /\ o2.stringTableOverflowEntries = o.stringTableOverflowEntries
                /\ Take(o2.stringStorage, slot.offset)
                   = Take(o.stringStorage, slot.offset)
                /\ Drop(o2.stringStorage, slot.offset + slot.n)
                   = Drop(o.stringStorage, slot.offset + slot.n) ]_vars

(* ------------------------ independent edits --------------------------- *)
\* The most calls made before the two calls that are swapped
CommDepth == 1

\* The setString calls of both kinds of value
EditStrings == StringCalls \cup HexCalls

CommNext ==
    \/ \E c \in RawCalls : SetFunction(c[1], c[2], c[3])
    \/ \E c \in AsmCalls : SetFunction(c[1], c[2], c[3])
    \/ \E c \in EditStrings : SetString(c[1], c[2])

\* The container under well-formed setFunction calls and setString calls
\* with text and hex values
CommSpec == Init /\ [][CommNext]_vars

\* Class v's container after setFunction call c = <<fid, func, disasm>>
AfterSetFunction(v, o, c) ==
    IF v = 86 THEN HBC86_setFunction(o, c[1], c[2], c[3]).obj
    ELSE HBC96_setFunction(o, c[1], c[2], c[3]).obj

\* The container after setString call c = <<sid, val>>
AfterSetString(o, c) == setString(o, c[1], c[2]).obj

\* [lo, hi): the bytes of the instruction buffer that setFunction call c
\* writes
FunctionWrite(o, c) ==
    LET start == o.functionHeaders[c[1] + 1]["offset"] - o.instOffset
        bc == IF c[3] THEN c[2][5].bytes ELSE c[2][5]
    IN [lo |-> start, hi |-> start + ListLen(bc)]

\* [lo, hi): the bytes of stringStorage that setString call c writes
\* (none when the call is refused)
StringWrite(o, c) ==
    LET slot == Slot(o, c[1])
        r == setString(o, c[1], c[2])
        bytes == IF slot.isUTF16 # 0 THEN fromhex(c[2]).bytes ELSE encode(c[2])
    IN [lo |-> slot.offset,
        hi |-> IF r.err \in {"ok", "IndexError"} THEN slot.offset + Len(bytes)
               ELSE slot.offset]

Disjoint(r, s) == r.lo >= r.hi \/ s.lo >= s.hi \/ r.hi <= s.lo \/ s.hi <= r.lo

InRange(id, n) == id >= 0 /\ id < n

\* Two setFunction calls drawn from A and B, on different functions and
\* with disjoint written ranges, give the same container in either order
FunctionsCommute(v, o, A, B) ==
    \A a \in A, b \in B :
        (/\ InRange(a[1], getFunctionCount(o)) /\ InRange(b[1], getFunctionCount(o))
         /\ a[1] # b[1]
         /\ Disjoint(FunctionWrite(o, a), FunctionWrite(o, b)))
        => AfterSetFunction(v, AfterSetFunction(v, o, a), b)
           = AfterSetFunction(v, AfterSetFunction(v, o, b), a)

StringsCommute(o) ==
    \A a \in EditStrings, b \in EditStrings :
        (/\ InRange(a[1], getStringCount(o)) /\ InRange(b[1], getStringCount(o))
         /\ Disjoint(StringWrite(o, a), StringWrite(o, b)))
        => AfterSetString(AfterSetString(o, a), b)
           = AfterSetString(AfterSetString(o, b), a)

FunctionAndStringCommute(v, o, A) ==
    \A a \in A, b \in EditStrings :
        AfterSetString(AfterSetFunction(v, o, a), b)
        = AfterSetFunction(v, AfterSetString(o, b), a)

\* C18: edits of non-overlapping byte ranges commute: two setFunction
\* calls on different functions whose written ranges are disjoint, two
\* setString calls whose written ranges are disjoint, and any setFunction
\* with any setString, give the same container in either order.
C18_Commute ==
    calls <= CommDepth
    => \A v \in Versions :
          /\ FunctionsCommute(v, Obj(v), RawCalls, RawCalls)
          /\ FunctionsCommute(v, Obj(v), RawCalls, AsmCalls)
          /\ FunctionsCommute(v, Obj(v), AsmCalls, AsmCalls)
          /\ StringsCommute(Obj(v))
          /\ FunctionAndStringCommute(v, Obj(v), RawCalls)
          /\ FunctionAndStringCommute(v, Obj(v), AsmCalls)

\* reached: after CommDepth calls, two setFunction calls on different
\* functions with disjoint written ranges that both change the container,
\* one of them growing the buffer past 32767 bytes, and two setString
\* calls with disjoint written ranges that both change it
C18_Witness ==
    /\ calls = CommDepth
    /\ \E a \in RawCalls, b \in RawCalls :
          /\ InRange(a[1], getFunctionCount(obj86)) /\ InRange(b[1], getFunctionCount(obj86))
          /\ a[1] # b[1]
          /\ Disjoint(FunctionWrite(obj86, a), FunctionWrite(obj86, b))
          /\ AfterSetFunction(86, obj86, a) # obj86
          /\ AfterSetFunction(86, AfterSetFunction(86, obj86, a), b)
             # AfterSetFunction(86, obj86, a)
          /\ ListLen(AfterSetFunction(86, obj86, b).inst) > max_small_size
          /\ ListLen(obj86.inst) <= max_small_size
    /\ \E a \in EditStrings, b \in EditStrings :
          /\ InRange(a[1], getStringCount(obj86)) /\ InRange(b[1], getStringCount(obj86))
          /\ Disjoint(StringWrite(obj86, a), StringWrite(obj86, b))
          /\ AfterSetString(obj86, a) # obj86
          /\ AfterSetString(AfterSetString(obj86, a), b) # AfterSetString(obj86, a)

(* ------------------------ overlapping functions ----------------------- *)
Max(a, b) == IF a >= b THEN a ELSE b

\* Function j of o2 after a write of bc at start into the buffer of o:
\* its header is as in o, and getFunction(j, disasm=false) returns the
\* written bytes where the write met j's range and j's old bytes elsewhere
Overwritten(o, o2, j, start, bc) ==
    LET fh == o.functionHeaders[j + 1]
        sj == fh["offset"] - o.instOffset
        ej == sj + fh["bytecodeSizeInBytes"]
        lo == Max(start, sj)
        hi == Min(start + ListLen(bc), ej)
        g == getFunction(o2, j, FALSE)
    IN lo < hi
       => /\ o2.functionHeaders[j + 1] = fh
          /\ g.err = "ok"
          /\ Slice(g.ret[5], lo - sj, hi - sj) = Slice(bc, lo - start, hi - start)
          /\ Take(g.ret[5], lo - sj) = Slice(o.inst, sj, lo)
          /\ Drop(g.ret[5], hi - sj) = Slice(o.inst, hi, ej)

\* C20: setFunction neither detects nor prevents overlap with a
\* neighbouring function: when the new bytecode is longer than the
\* function's previous bytecodeSizeInBytes and [start, start+new) reaches
\* into the range of another function j, the call succeeds, j's header is
\* unchanged and getFunction(j, disasm=false) afterwards returns the
\* overwritten bytes.
C20_Overlap ==
    [][ \A v \in Versions :
          LET o == Obj(v)
              o2 == IF v = 86 THEN obj86' ELSE obj96'
              err == IF v = 86 THEN last'.err86 ELSE last'.err96
              fid == last'.id
              bc == last'.arg[5]
              fh == o.functionHeaders[fid + 1]
              start == fh["offset"] - o.instOffset
          IN (/\ last'.op = "setFunction" /\ ~last'.disasm
              /\ InRange(fid, getFunctionCount(o)) /\ Len(last'.arg) = 6
              /\ ListLen(bc) > fh["bytecodeSizeInBytes"])
             => \A j \in 0..(getFunctionCount(o) - 1) :
                   (/\ j # fid
                    /\ Max(start, o.functionHeaders[j + 1]["offset"] - o.instOffset)
                       < Min(start + ListLen(bc),
                             o.functionHeaders[j + 1]["offset"] - o.instOffset
                             + o.functionHeaders[j + 1]["bytecodeSizeInBytes"]))
                   => err = "ok" /\ Overwritten(o, o2, j, start, bc) ]_vars

(* ------------------------- the two versions --------------------------- *)
\* The function headers and the instruction buffer of o and o2 are equal
SameFunctions(o, o2) ==
    /\ o.functionHeaders = o2.functionHeaders
    /\ o.inst = o2.inst

\* C21: HBC86.setFunction and HBC96.setFunction are equivalent edits: from
\* the same container state, the same setFunction call (disasm=false,
\* bytecode of any length) leaves both containers with the same function
\* headers (counts, size, flags, presence and contents of small) and the
\* same instruction buffer, so the same holds after every call of a
\* sequence.
C21_Equivalent ==
    [][ (/\ last'.op = "setFunction" /\ ~last'.disasm
         /\ SameFunctions(obj86, obj96))
        => SameFunctions(obj86', obj96') ]_vars

(* -------------------------- shorter strings --------------------------- *)
\* Every character of val takes one UTF-8 byte
SingleByte(val) == \A i \in 1..Len(val) : val[i] < 128

\* C22: after a successful setString(sid, v) on a non-UTF-16 slot, v of
\* single-byte characters only and len(v) < length, the string-table entry
\* is unchanged and the slot's bytes from len(v) on keep their values, so
\* getString(sid) returns v followed by the old tail; getString(sid)
\* returns exactly v only when len(v) == length.
C22_Shrink ==
    [][ \A v \in Versions :
          LET o == Obj(v)
              o2 == IF v = 86 THEN obj86' ELSE obj96'
              err == IF v = 86 THEN last'.err86 ELSE last'.err96
              sid == last'.id
              val == last'.arg
              slot == Slot(o, sid)
              old == Expand(Slice(o.stringStorage, slot.offset, slot.offset + slot.n))
              g == getString(o2, sid)
          IN (/\ last'.op = "setString" /\ err = "ok"
              /\ slot.isUTF16 = 0 /\ SingleByte(val))
             => /\ o2.stringTableEntries = o.stringTableEntries
                /\ o2.stringTableOverflowEntries = o.stringTableOverflowEntries
                /\ Expand(Slice(o2.stringStorage, slot.offset + Len(val),
                                slot.offset + slot.n))
                   = SubSeq(old, Len(val) + 1, slot.n)
                /\ g.err = "ok"
                /\ encode(g.ret[1]) = val \o SubSeq(old, Len(val) + 1, slot.n)
                /\ g.ret[1] = val => Len(val) = slot.length ]_vars

(* ------------------------- the frozen backup -------------------------- *)
\* C23: a setFunction call with more than 32767 bytes on a header that
\* already has small leaves every field of small unchanged, also when the
\* call changes paramCount, registerCount or symbolCount:
\* small.bytecodeSizeInBytes is not recomputed.
C23_SmallFrozen ==
    \A v \in Versions :
        (/\ SetFunctionOk(v)
         /\ HasKey(Pre(v), "small")
         /\ ListLen(CallBytes) > max_small_size)
        => /\ HasKey(Target(v), "small")
           /\ Target(v)["small"] = Pre(v)["small"]

\* reached: a call of more than 32767 bytes on an overflowed header that
\* changed the three counts; small keeps the old counts and a size that
\* is not the header's
C23_Witness ==
    \A v \in Versions :
        /\ SetFunctionOk(v)
        /\ HasKey(Pre(v), "small")
        /\ ListLen(CallBytes) > max_small_size
        /\ Target(v)["paramCount"] # Pre(v)["paramCount"]
        /\ Target(v)["frameSize"] # Pre(v)["frameSize"]
        /\ Target(v)["environmentSize"] # Pre(v)["environmentSize"]
        /\ Target(v)["small"]["paramCount"] = Pre(v)["paramCount"]
        /\ Target(v)["small"]["bytecodeSizeInBytes"] # Target(v)["bytecodeSizeInBytes"]
====
